---- MODULE Spec2Model ----
(***************************************************************************)
(* The outbound SOCKS connector of OnionCat (src/src/ocatsocks.c): the     *)
(* request queue, the request pipe and the reactor socks_connector_sel,    *)
(* one action per phase of a reactor iteration, plus the threads that      *)
(* write the request pipe and the clock.                                   *)
(***************************************************************************)
EXTENDS Integers, Sequences, FiniteSets, TLC

(* ------------------------------------------------------------------ *)
(* Bounds of the model.                                                 *)
(* ------------------------------------------------------------------ *)
\* peer addresses 1..NumAddr; 0 is the unspecified address (::)
NumAddr == 2
\* records the request pipe holds before socks_pipe_request blocks
MaxPipe == 1
\* descriptor numbers 1..MaxFd are available to socket()
MaxFd == 2
\* the clock time(NULL) runs over 0..MaxTime
MaxTime == 1
\* counted NEW passes beyond SOCKS_MAX_RETRY that the model follows an entry for
\* (a temporary entry, which the code itself means to bound, for one pass more)
MaxExtra == 1
\* values of ocat.h (not part of the sources at hand), scaled down
SOCKS_MAX_RETRY == 1
TOR_SOCKS_CONN_TIMEOUT == 1
SOCKS_DNS_RETRY == 1
SOCKS_DNS_RETRY_TIMEOUT == 1

Addrs == 1..NumAddr
Fds == 1..MaxFd
\* the descriptor print_socks_queue() smuggles through sq.next
DumpFd == 7

Modes == {"SOCKS4A", "SOCKS5", "DIRECT"}

\* CNF(socks5), CNF(dns_lookup), CNF(hosts_lookup); without the DNS probe a SOCKS
\* mode never reads the result of get_hostname()
Configs ==
    {c \in [mode : Modes, dns_lookup : BOOLEAN, hosts_lookup : BOOLEAN] :
        (c.mode # "DIRECT" /\ ~c.dns_lookup) => c.hosts_lookup}

\* the calls socks_queue(addr, perm) the other threads make: the last address
\* as a permanent request, the others as temporary ones
Reqs == {<<a, IF a = NumAddr THEN 1 ELSE 0>> : a \in Addrs}

VARIABLES
    queue,      \* socks_queue_, head first: the linked SocksQueue_t entries
    pipe,       \* records written to CNF(socksfd[1]) and not yet read
    now,        \* time(NULL)
    pc,         \* position of socks_connector_sel in its iteration
    rset,       \* fd_set rset (descriptors of sockets)
    wset,       \* fd_set wset
    piperdy,    \* CNF(socksfd[0]) is in rset
    maxfd,      \* int maxfd, after oc_select0 the number of ready descriptors
    openfds,    \* descriptors that are open in the process
    peerfds,    \* descriptors handed to the peer registry by insert_peer
    hostsdb,    \* addresses hosts_get_name() has a name for
    cfg,        \* CNF(socks5), CNF(dns_lookup), CNF(hosts_lookup)
    lastrec,    \* the record the last read of the pipe returned (NoRec: none)
    out,        \* what socks_output_queue wrote in this iteration
    term,       \* term_req() answers true
    probe,      \* synchron_socks_connect: its position, its local sq, its result
    resp        \* socks_rec_response: what its read() met, and its result

vars == <<queue, pipe, now, pc, rset, wset, piperdy, maxfd, openfds,
          peerfds, hostsdb, cfg, lastrec, out, term, probe, resp>>

\* no call of socks_rec_response has been looked at
NoResp == [ret |-> -1, ver |-> 0, cmd |-> 0, rest |-> 0, done |-> FALSE, res |-> -1]

\* no call of synchron_socks_connect is under way; retried records that the
\* SOCKS_DELETE case has run, own the sockets the call created and did not close
NoProbe ==
    [pc |-> "idle", state |-> "NEW", fd |-> -1, ret |-> -1, rand |-> FALSE,
     retried |-> FALSE, own |-> {}]

NoRec == [addr |-> 0, perm |-> 0, next |-> -1, walked |-> FALSE]
NoOut == [fd |-> 0, lines |-> << >>, nul |-> 0]

(* ------------------------------------------------------------------ *)
(* Helpers on sequences and descriptors.                                *)
(* ------------------------------------------------------------------ *)
RemoveAt(s, i) == [j \in 1..(Len(s) - 1) |-> IF j < i THEN s[j] ELSE s[j + 1]]

\* socket(): the lowest free descriptor number, -1 when none is free (EMFILE)
socket(open) ==
    IF (Fds \ open) # {}
    THEN CHOOSE f \in Fds \ open : \A g \in Fds \ open : f <= g
    ELSE -1

\* oe_close()
oe_close(open, fd) == open \ {fd}

\* get_hostname(sq, NULL, 0) == -1 : no name in the hosts database
nohost(addr) == ~(cfg.hosts_lookup /\ addr \in hostsdb)

(* ------------------------------------------------------------------ *)
(* The request queue.                                                   *)
(* ------------------------------------------------------------------ *)
\* index of the first entry with this address, 0 for NULL
socks_get_req(q, addr) ==
    IF \E i \in 1..Len(q) : q[i].addr = addr
    THEN CHOOSE i \in 1..Len(q) : q[i].addr = addr /\ \A j \in 1..(i - 1) : q[j].addr # addr
    ELSE 0

\* the queue entry memcpy() makes of a pipe record. Beside the fields of
\* SocksQueue_t an entry carries its history: att counts the NEW passes of a
\* temporary entry that incremented retry, ins lists the insert_peer calls made
\* for it, ev is what the last phase did to it, old says that it was DELETE
\* when the last iteration ended, tried that a TCP socket was created for it,
\* fallback the number of queries its DNS probe had sent when it was given up,
\* answered that its DNS probe was answered and no NEW pass has followed yet.
EntryOf(rec) ==
    [addr |-> rec.addr, perm |-> rec.perm, state |-> "NEW", fd |-> 0, retry |-> 0,
     connect_time |-> 0, restart_time |-> 0,
     att |-> 0, ins |-> << >>, ev |-> "none", old |-> FALSE, tried |-> FALSE,
     fallback |-> 0, answered |-> FALSE, rdy |-> FALSE, hist |-> << >>]

\* variant: links a copy whether or not the address is linked
socks_enqueue_nodedup(q, rec) == <<EntryOf(rec)>> \o q

\* variant: links the copy at the tail
socks_enqueue_tail(q, rec) ==
    IF socks_get_req(q, rec.addr) # 0 THEN q ELSE q \o <<EntryOf(rec)>>

socks_enqueue(q, rec) ==
    IF socks_get_req(q, rec.addr) # 0 THEN q ELSE <<EntryOf(rec)>> \o q

\* unlink the entry at index i (pointer identity), 0 unlinks nothing
socks_unqueue(q, i) == IF i \in 1..Len(q) THEN RemoveAt(q, i) ELSE q

\* variant: walks the list from its tail
socks_output_queue_tailfirst(q, fd) ==
    [fd |-> fd,
     lines |-> [i \in 1..Len(q) |->
                  LET e == q[Len(q) + 1 - i]
                  IN  [idx |-> i - 1, addr |-> e.addr, state |-> e.state,
                       perm |-> e.perm, retry |-> e.retry,
                       connect_time |-> e.connect_time,
                       restart_time |-> e.restart_time]],
     nul |-> 1]

\* one line of socks_output_queue per entry, in list order, then one zero byte
socks_output_queue(q, fd) ==
    [fd |-> fd,
     lines |-> [i \in 1..Len(q) |-> [idx |-> i - 1, addr |-> q[i].addr, state |-> q[i].state,
                                     perm |-> q[i].perm, retry |-> q[i].retry,
                                     connect_time |-> q[i].connect_time,
                                     restart_time |-> q[i].restart_time]],
     nul |-> 1]

(* ------------------------------------------------------------------ *)
(* socks_reset, socks_reschedule, socks_activate_peer: the entry, and    *)
(* the descriptors open in the process.                                 *)
(* ------------------------------------------------------------------ *)
\* variant: leaves the state as it is
socks_reset_keepstate(e, open) ==
    [e    |-> [e EXCEPT !.fd = IF e.fd > 0 THEN 0 ELSE e.fd, !.restart_time = 0],
     open |-> IF e.fd > 0 THEN oe_close(open, e.fd) ELSE open]

socks_reset(e, open) ==
    [e    |-> [e EXCEPT !.fd = IF e.fd > 0 THEN 0 ELSE e.fd,
                        !.restart_time = 0,
                        !.state = "NEW"],
     open |-> IF e.fd > 0 THEN oe_close(open, e.fd) ELSE open]

\* variant: starts the retry count anew
socks_reschedule_resetretry(e, open, t) ==
    [e    |-> [socks_reset(e, open).e EXCEPT !.restart_time = t + TOR_SOCKS_CONN_TIMEOUT,
                                             !.retry = 0],
     open |-> socks_reset(e, open).open]

socks_reschedule(e, open, t) ==
    [e    |-> [socks_reset(e, open).e EXCEPT !.restart_time = t + TOR_SOCKS_CONN_TIMEOUT],
     open |-> socks_reset(e, open).open]

\* variant: sends the keepalive whether or not the peer was found
PeerCalls_always(found) ==
    <<"lock_peers", "search_peer", "lock_peer", "unlock_peers", "send_keepalive",
      "unlock_peer">>

\* lines 185-195 of socks_activate_peer: the calls it makes on the peer registry,
\* search_peer() having found the inserted peer or not
PeerCalls(found) ==
    <<"lock_peers", "search_peer">>
    \o (IF found THEN <<"lock_peer">> ELSE << >>)
    \o <<"unlock_peers">>
    \o (IF found THEN <<"send_keepalive", "unlock_peer">> ELSE << >>)

\* insert_peer(sq->fd, sq, time(NULL) - sq->connect_time), then the first
\* keepalive; the function returns 0 on either path
socks_activate_peer(e, t, found) ==
    [e EXCEPT !.ins = Append(e.ins, [fd |-> e.fd, elapsed |-> t - e.connect_time,
                                     found |-> found, calls |-> PeerCalls(found)])]


(* ------------------------------------------------------------------ *)
(* Phase A: the state scan of socks_connector_sel (lines 644-842).      *)
(* A step of the scan carries st = [open, rs, ws]; u and c are what the *)
(* DNS probe and the TCP connect of this entry meet.                    *)
(* ------------------------------------------------------------------ *)
Uout == {"reqerr", "ok"}
Tout == {"nores", "connerr", "ok"}

\* the outcome drawn for entry i, "ok" for an entry that makes no such call
At(f, i) == IF i \in DOMAIN f THEN f[i] ELSE "ok"

\* entries whose scan can reach the DNS probe, and the TCP connect
UsesU(q, t) ==
    {i \in 1..Len(q) : cfg.dns_lookup /\
        \/ q[i].state = "DNS_SENT" /\ t >= q[i].restart_time
        \/ q[i].state = "NEW" /\ t >= q[i].restart_time /\ q[i].retry = 0}
UsesC(q, t) == {i \in 1..Len(q) : q[i].state = "NEW" /\ t >= q[i].restart_time}
ToutOf(m) == IF m = "DIRECT" THEN Tout ELSE Tout \ {"nores"}

\* lines 717-758: destination, socket(), connect()
TcpStart(e, st, c, t) ==
    IF cfg.mode = "DIRECT" /\ (nohost(e.addr) \/ c = "nores")
    THEN [e |-> e, open |-> st.open, rs |-> st.rs, ws |-> st.ws]
    ELSE LET fd == socket(st.open)
             e1 == [e EXCEPT !.fd = fd]
         IN  IF fd = -1
             THEN [e |-> e1, open |-> st.open, rs |-> st.rs, ws |-> st.ws]
             ELSE LET e2 == [e1 EXCEPT !.connect_time = t, !.tried = TRUE]
                      open2 == st.open \cup {fd}
                      r == socks_reschedule(e2, open2, t)
                  IN  IF c = "connerr"
                      THEN [e |-> [r.e EXCEPT !.ev = "connerr"], open |-> r.open,
                            rs |-> st.rs, ws |-> st.ws]
                      ELSE [e |-> [e2 EXCEPT !.state = "CONNECTING"], open |-> open2,
                            rs |-> st.rs, ws |-> st.ws \cup {fd}]

\* lines 648-700: case SOCKS_NEW up to the DNS probe
ScanNew(e, st, u, c, t) ==
    IF t < e.restart_time
    THEN [e |-> e, open |-> st.open, rs |-> st.rs, ws |-> st.ws]
    ELSE LET e1 == [e EXCEPT !.retry = @ + 1, !.att = IF e.perm = 0 THEN @ + 1 ELSE @,
                             !.answered = FALSE]
         IN  IF e1.perm = 0 /\ e1.retry > SOCKS_MAX_RETRY
             THEN [e |-> [e1 EXCEPT !.state = "DELETE"], open |-> st.open,
                   rs |-> st.rs, ws |-> st.ws]
             ELSE IF cfg.dns_lookup /\ nohost(e1.addr) /\ e1.retry <= 1
             THEN LET fd == socket(st.open)
                      e2 == [e1 EXCEPT !.fd = fd]
                  IN  IF fd # -1 /\ u = "ok"
                      THEN [e |-> [e2 EXCEPT !.state = "DNS_SENT", !.retry = 0,
                                             !.restart_time = t + SOCKS_DNS_RETRY_TIMEOUT],
                            open |-> st.open \cup {fd}, rs |-> st.rs \cup {fd}, ws |-> st.ws]
                      ELSE \* the UDP socket, if any, is closed again; sq->fd keeps its number
                           TcpStart(e2, st, c, t)
             ELSE TcpStart(e1, st, c, t)

\* variant: gives the probe up with retry 0
ScanDns_retry0(e, st, u, t) ==
    IF t < e.restart_time
    THEN [e |-> e, open |-> st.open, rs |-> st.rs \cup {e.fd}, ws |-> st.ws]
    ELSE IF e.retry < SOCKS_DNS_RETRY /\ u = "ok" /\ e.fd \in st.open
    THEN [e |-> [e EXCEPT !.retry = @ + 1, !.restart_time = t + SOCKS_DNS_RETRY_TIMEOUT],
          open |-> st.open, rs |-> st.rs \cup {e.fd}, ws |-> st.ws]
    ELSE [e |-> [e EXCEPT !.state = "NEW", !.restart_time = 0, !.retry = 0,
                          !.fallback = e.retry + 1],
          open |-> oe_close(st.open, e.fd), rs |-> st.rs, ws |-> st.ws]

\* lines 767-793: case SOCKS_DNS_SENT
ScanDns(e, st, u, t) ==
    IF t < e.restart_time
    THEN [e |-> e, open |-> st.open, rs |-> st.rs \cup {e.fd}, ws |-> st.ws]
    ELSE IF e.retry < SOCKS_DNS_RETRY /\ u = "ok" /\ e.fd \in st.open
    THEN [e |-> [e EXCEPT !.retry = @ + 1, !.restart_time = t + SOCKS_DNS_RETRY_TIMEOUT],
          open |-> st.open, rs |-> st.rs \cup {e.fd}, ws |-> st.ws]
    ELSE [e |-> [e EXCEPT !.state = "NEW", !.restart_time = 0, !.retry = 1,
                          !.fallback = e.retry + 1],
          open |-> oe_close(st.open, e.fd), rs |-> st.rs, ws |-> st.ws]

\* the switch of lines 646-841 on one entry
ScanEntry(e, st, u, c, t) ==
    CASE e.state = "NEW" -> ScanNew(e, st, u, c, t)
      [] e.state \in {"S4A_REQ_SENT", "S5_GREET_SENT", "S5_REQ_SENT"} ->
            [e |-> e, open |-> st.open, rs |-> st.rs \cup {e.fd}, ws |-> st.ws]
      [] e.state = "DNS_SENT" -> ScanDns(e, st, u, t)
      [] e.state = "DELETE" -> [e |-> e, open |-> st.open, rs |-> st.rs, ws |-> st.ws]
      [] OTHER -> \* default: CONNECTING has no case of its own
            [e |-> socks_reset(e, st.open).e, open |-> socks_reset(e, st.open).open,
             rs |-> st.rs, ws |-> st.ws]

RECURSIVE ScanFrom(_, _, _, _, _, _)
ScanFrom(i, q, st, uo, co, t) ==
    IF i > Len(q) THEN [q |-> q, open |-> st.open, rs |-> st.rs, ws |-> st.ws]
    ELSE LET r == ScanEntry(q[i], st, At(uo, i), At(co, i), t)
         IN  ScanFrom(i + 1, [q EXCEPT ![i] = r.e],
                      [open |-> r.open, rs |-> r.rs, ws |-> r.ws], uo, co, t)

AttCap(e) == SOCKS_MAX_RETRY + MaxExtra + (IF e.perm = 0 THEN 1 ELSE 0)

ClearEv(q) == [i \in 1..Len(q) |-> [q[i] EXCEPT !.ev = "none", !.rdy = FALSE]]

\* an iteration ends: note the entries it leaves marked for deletion
EndIter(q) ==
    [i \in 1..Len(q) |-> [q[i] EXCEPT !.ev = "none", !.rdy = FALSE,
                                    !.old = (q[i].state = "DELETE")]]

(* ------------------------------------------------------------------ *)
(* Initial state and the threads around the reactor.                    *)
(* ------------------------------------------------------------------ *)
Init ==
    /\ queue = << >>
    /\ pipe = << >>
    /\ now = 0
    /\ pc = "scan"
    /\ rset = {}
    /\ wset = {}
    /\ piperdy = FALSE
    /\ maxfd = 0
    /\ openfds = {}
    /\ peerfds = {}
    /\ hostsdb = {1}
    /\ cfg \in Configs
    /\ lastrec = NoRec
    /\ out = NoOut
    /\ term = FALSE
    /\ probe = NoProbe
    /\ resp = NoResp

\* The steps of the other threads and of the clock are taken where the reactor
\* reads what they write (the clock before the scan and before the dispatch,
\* the pipe before oc_select0 returns); taken anywhere else they commute with
\* the reactor's steps.

\* the clock
Tick ==
    /\ pc \in {"scan", "select"}
    /\ now < MaxTime
    /\ now' = now + 1
    /\ UNCHANGED <<queue, pipe, pc, rset, wset, piperdy, maxfd, openfds,
                   peerfds, hostsdb, cfg, lastrec, out, term, probe, resp>>

\* socks_pipe_request(): one record is written once the pipe is writable
socks_pipe_request(rec) ==
    /\ pc = "select"
    /\ Len(pipe) < MaxPipe
    /\ pipe' = Append(pipe, rec)
    /\ UNCHANGED <<queue, now, pc, rset, wset, piperdy, maxfd, openfds,
                   peerfds, hostsdb, cfg, lastrec, out, term, probe, resp>>

\* socks_queue(addr, perm), called by other threads. The lookup of line 318 takes
\* no lock and precedes the write: it sees the queue as it is, or as it was
\* before the reactor linked its entries. With the record goes the note whether
\* the caller's lookup walked over entries of the queue (walked).
socks_queue(addr, perm) ==
    \E seen \in {queue, << >>} :
        /\ socks_get_req(seen, addr) = 0
        /\ socks_pipe_request([addr |-> addr, perm |-> perm, next |-> 0,
                               walked |-> seen # << >>])

\* sig_socks_connector()
sig_socks_connector ==
    socks_pipe_request([addr |-> 0, perm |-> 0, next |-> 0, walked |-> FALSE])

\* print_socks_queue(fd)
print_socks_queue(fd) ==
    socks_pipe_request([addr |-> 0, perm |-> 0, next |-> fd, walked |-> FALSE])

(* ------------------------------------------------------------------ *)
(* The reactor, socks_connector_sel, phase by phase.                    *)
(* ------------------------------------------------------------------ *)
\* termination is requested (by a signal, from another thread); ats are the
\* positions of the reactor at which the request is followed
Terminate(ats) ==
    /\ pc \in ats
    /\ ~term
    /\ term' = TRUE
    /\ UNCHANGED <<queue, pipe, now, pc, rset, wset, piperdy, maxfd, openfds,
                   peerfds, hostsdb, cfg, lastrec, out, probe, resp>>

\* lines 635-637: term_req() at the top of the loop answers true
ScanExit ==
    /\ pc = "scan"
    /\ term
    /\ pc' = "done"
    /\ UNCHANGED <<queue, pipe, now, rset, wset, piperdy, maxfd, openfds,
                   peerfds, hostsdb, cfg, lastrec, out, term, probe, resp>>

\* lines 639-842
ScanPass ==
    /\ \E uo \in [UsesU(queue, now) -> Uout], co \in [UsesC(queue, now) -> ToutOf(cfg.mode)] :
          LET r == ScanFrom(1, ClearEv(queue), [open |-> openfds, rs |-> {}, ws |-> {}],
                            uo, co, now)
          IN  /\ \A i \in 1..Len(r.q) : r.q[i].att <= AttCap(r.q[i]) /\ r.q[i].retry <= AttCap(r.q[i])
              /\ queue' = r.q
              /\ openfds' = r.open
              /\ rset' = r.rs
              /\ wset' = r.ws
    /\ piperdy' = TRUE
    /\ pc' = "select"
    /\ UNCHANGED <<pipe, now, maxfd, peerfds, hostsdb, cfg, lastrec, out, term, probe, resp>>

\* variant: goes on whether or not termination is requested
Scan_noterm ==
    /\ pc = "scan"
    /\ ScanPass

\* lines 635-842: term_req() answers false, and the pass over the queue
Scan ==
    /\ pc = "scan"
    /\ ~term
    /\ ScanPass

\* line 845, oc_select0() == -1: the iteration is abandoned
SelectFail ==
    /\ pc = "select"
    /\ pc' = "scan"
    /\ queue' = EndIter(queue)
    /\ maxfd' = 0
    /\ rset' = {}
    /\ wset' = {}
    /\ piperdy' = FALSE
    /\ UNCHANGED <<pipe, now, openfds, peerfds, hostsdb, cfg, lastrec, out, term, probe, resp>>

\* variant: looks at the address only
PipeRead_addrfirst(q, sq) ==
    IF sq.addr = 0
    THEN [q |-> q, out |-> NoOut]
    ELSE [q |-> socks_enqueue(q, sq), out |-> NoOut]

\* lines 849-876: one record of the request pipe, classified by its content
PipeRead(q, sq) ==
    IF sq.next # 0
    THEN [q |-> q, out |-> socks_output_queue(q, sq.next)]
    ELSE IF sq.addr = 0
    THEN [q |-> q, out |-> NoOut]
    ELSE [q |-> socks_enqueue(q, sq), out |-> NoOut]

\* lines 845-876: oc_select0() returns (on a timeout too), and the pipe is read
\* when it is among the ready descriptors; which sockets are ready is drawn
\* where it is first read, in the dispatch
Select ==
    /\ pc = "select"
    /\ (rset \cup wset) \subseteq openfds
    /\ pc' = "dispatch"
    /\ piperdy' = (pipe # << >>)
    /\ IF pipe # << >>
       THEN \E ok \in BOOLEAN :
               /\ pipe' = Tail(pipe)
               /\ IF ok
                  THEN /\ lastrec' = Head(pipe)
                       /\ queue' = PipeRead(ClearEv(queue), Head(pipe)).q
                       /\ out' = PipeRead(ClearEv(queue), Head(pipe)).out
                  ELSE \* len < sizeof(sq): the bytes read are ignored
                       /\ queue' = ClearEv(queue)
                       /\ UNCHANGED <<lastrec, out>>
       ELSE /\ queue' = ClearEv(queue)
            /\ UNCHANGED <<pipe, lastrec, out>>
    /\ UNCHANGED <<now, rset, wset, maxfd, openfds, peerfds, hostsdb, cfg, term, probe, resp>>

(* ------------------------------------------------------------------ *)
(* Phase B: the descriptor dispatch (lines 878-1025).                   *)
(* st = [open, hosts, peers, maxfd, rs, ws], rs and ws the sets as      *)
(* oc_select0 returned them; wo and ro are what the socket calls of     *)
(* this entry meet in the write-set and the read-set branch.            *)
(* ------------------------------------------------------------------ *)
\* "lost": the call succeeds, and search_peer() then misses the inserted peer
Wout == {"soerr", "wfail", "ok", "lost"}
Rout == {"rfail", "reject", "wfail", "ok", "lost"}

\* entries whose dispatch can reach a socket call in the write-set branch,
\* and in the read-set branch
UsesW(q, ws) == {i \in 1..Len(q) : q[i].state = "CONNECTING" /\ q[i].fd \in ws}
UsesR(q, rs) ==
    {i \in 1..Len(q) : q[i].fd \in rs /\
        q[i].state \in {"CONNECTING", "S4A_REQ_SENT", "S5_GREET_SENT", "S5_REQ_SENT",
                        "DNS_SENT"}}
WoutOf(m) == IF m = "DIRECT" THEN Wout \ {"wfail"} ELSE Wout \ {"lost"}
RoutOf(m) ==
    CASE m = "SOCKS5" -> Rout
      [] m = "SOCKS4A" -> Rout \ {"wfail"}
      [] OTHER -> Rout \ {"wfail", "lost"}

\* FD_ISSET(); with fd == -1 the macro reads outside the set: either answer
FD_ISSET(fd, set, ub) == IF fd < 0 THEN ub ELSE fd \in set

\* oc_proc_response(): the name of a validated response enters the hosts database
oc_proc_response(hosts, addr) == hosts \cup {addr}

Resched(e, st, t, why, cont) ==
    [e |-> [socks_reschedule(e, st.open, t).e EXCEPT !.ev = why, !.hist = << >>],
     open |-> socks_reschedule(e, st.open, t).open,
     hosts |-> st.hosts, peers |-> st.peers, cont |-> cont]

Keep(e, st) ==
    [e |-> e, open |-> st.open, hosts |-> st.hosts, peers |-> st.peers, cont |-> FALSE]

\* the entry leaves state e.state in a branch of the dispatch; on names the
\* branch ("w" write set, "r" read set) and what the socket calls of the branch
\* met; noted in the entry's history since its connect began (a peer missed by
\* search_peer() is no property of the reply)
Advance(e, on, to) ==
    [e EXCEPT !.state = to,
              !.hist = Append(@, [from |-> e.state, on |-> on[1],
                                  reply |-> IF on[2] = "lost" THEN "ok" ELSE on[2]])]

\* variant: does not mark the entry for deletion
Activate_nodelete(e, st, t, found, on) ==
    [e |-> [socks_activate_peer(e, t, found) EXCEPT !.ev = "activated"],
     open |-> st.open, hosts |-> st.hosts, peers |-> st.peers \cup {e.fd}, cont |-> FALSE]

\* lines 932-933, 961-962, 991-992: hand the descriptor over, mark for deletion
Activate(e, st, t, found, on) ==
    [e |-> [Advance(socks_activate_peer(e, t, found), on, "DELETE") EXCEPT
                !.ev = "activated"],
     open |-> st.open, hosts |-> st.hosts, peers |-> st.peers \cup {e.fd}, cont |-> FALSE]

\* variant: goes on without looking at SO_ERROR
DispWrite_nosoerr(e, st, wo, t) ==
    IF e.state # "CONNECTING" THEN Keep(e, st)
    ELSE IF cfg.mode = "SOCKS4A" THEN Keep(Advance(e, <<"w", wo>>, "S4A_REQ_SENT"), st)
    ELSE IF cfg.mode = "SOCKS5" THEN Keep(Advance(e, <<"w", wo>>, "S5_GREET_SENT"), st)
    ELSE Activate(e, st, t, wo # "lost", <<"w", wo>>)

\* lines 883-945: the descriptor is in the write set
DispWrite(e, st, wo, t) ==
    IF e.state # "CONNECTING" THEN Keep(e, st)
    ELSE LET w == IF e.fd \in st.open THEN wo ELSE "soerr"
         IN  IF w = "soerr" THEN Resched(e, st, t, "fail", TRUE)
             ELSE IF cfg.mode = "SOCKS4A"
             THEN IF w = "wfail" THEN Resched(e, st, t, "fail", TRUE)
                  ELSE Keep(Advance(e, <<"w", w>>, "S4A_REQ_SENT"), st)
             ELSE IF cfg.mode = "SOCKS5"
             THEN IF w = "wfail" THEN Resched(e, st, t, "fail", TRUE)
                  ELSE Keep(Advance(e, <<"w", w>>, "S5_GREET_SENT"), st)
             ELSE Activate(e, st, t, w # "lost", <<"w", w>>)

\* variant: takes the answer to the greeting for the answer to the request
DispGreet_noreq(e, st, r, t) ==
    IF r \in {"rfail", "reject", "wfail"} THEN Resched(e, st, t, "fail", TRUE)
    ELSE Activate(e, st, t, TRUE, <<"r", r>>)

\* lines 965-981: socks5_greet_response(), then socks5_send_request()
DispGreet(e, st, r, t) ==
    IF r \in {"rfail", "reject", "wfail"} THEN Resched(e, st, t, "fail", TRUE)
    ELSE Keep(Advance(e, <<"r", r>>, "S5_REQ_SENT"), st)

\* lines 948-1024: the descriptor is in the read set
DispRead(e, st, ro, t) ==
    LET r == IF e.fd \in st.open THEN ro ELSE "rfail"
    IN  CASE e.state \in {"S4A_REQ_SENT", "S5_REQ_SENT"} ->
                IF r \in {"rfail", "reject"} THEN Resched(e, st, t, "fail", TRUE)
                \* nothing is written in these two cases: "wfail" is a success too
                ELSE Activate(e, st, t, r # "lost",
                              <<"r", IF r = "wfail" THEN "ok" ELSE r>>)
          [] e.state = "S5_GREET_SENT" -> DispGreet(e, st, r, t)
          [] e.state = "DNS_SENT" ->
                \* socks_dns_recv() == -1: recvfrom() fails ("rfail"), or the sender
                \* is not ns_addr or oc_proc_response() rejects the answer ("reject")
                IF r \in {"rfail", "reject"}
                THEN [e |-> [e EXCEPT !.state = "DELETE", !.ev = "dnsfail"],
                      open |-> oe_close(st.open, e.fd), hosts |-> st.hosts,
                      peers |-> st.peers, cont |-> FALSE]
                ELSE [e |-> [e EXCEPT !.state = "NEW", !.retry = 0, !.restart_time = 0,
                                      !.answered = TRUE],
                      open |-> oe_close(st.open, e.fd),
                      hosts |-> oc_proc_response(st.hosts, e.addr),
                      peers |-> st.peers, cont |-> FALSE]
          [] e.state = "DELETE" -> Keep(e, st)
          [] OTHER ->
                [e |-> socks_reset(e, st.open).e,
                 open |-> socks_reset(e, st.open).open, hosts |-> st.hosts,
                 peers |-> st.peers, cont |-> FALSE]

\* one pass of the loop body of lines 880-1025 over one entry
DispEntry(e, st, wo, ro, ubw, ubr, t) ==
    LET inw == FD_ISSET(e.fd, st.ws, ubw)
        a == IF inw THEN DispWrite(e, st, wo, t) ELSE Keep(e, st)
        m1 == IF inw THEN st.maxfd - 1 ELSE st.maxfd
        inr == ~a.cont /\ FD_ISSET(a.e.fd, st.rs, ubr)
        b == IF inr THEN DispRead(a.e, a, ro, t) ELSE a
        m2 == IF inr THEN m1 - 1 ELSE m1
    IN  [e |-> b.e, open |-> b.open, hosts |-> b.hosts, peers |-> b.peers, maxfd |-> m2]

RECURSIVE DispFrom(_, _, _, _, _, _, _, _)
DispFrom(i, q, st, wo, ro, ubw, ubr, t) ==
    IF st.maxfd = 0 \/ i > Len(q)
    THEN [q |-> q, open |-> st.open, hosts |-> st.hosts, peers |-> st.peers,
          maxfd |-> st.maxfd]
    ELSE LET r == DispEntry(q[i], st, At(wo, i), At(ro, i), i \in ubw, i \in ubr, t)
         IN  DispFrom(i + 1, [q EXCEPT ![i] = r.e],
                      [open |-> r.open, hosts |-> r.hosts, peers |-> r.peers,
                       maxfd |-> r.maxfd, rs |-> st.rs, ws |-> st.ws], wo, ro, ubw, ubr, t)

\* the wait reported the event entry e waits for: its connect has completed,
\* or the answer it waits for can be read
Handles(e, rs, ws) ==
    \/ e.state = "CONNECTING" /\ e.fd \in ws
    \/ /\ e.state \in {"S4A_REQ_SENT", "S5_GREET_SENT", "S5_REQ_SENT", "DNS_SENT"}
       /\ e.fd \in rs

\* note with each entry whether its event was reported
MarkReady(q, rs, ws) == [i \in 1..Len(q) |-> [q[i] EXCEPT !.rdy = Handles(q[i], rs, ws)]]

\* entries whose fd is -1: FD_ISSET on them is undefined
Neg(q) == {i \in 1..Len(q) : q[i].fd < 0}

Dispatch ==
    /\ pc = "dispatch"
    /\ pc' = "reap"
    /\ \E rs \in SUBSET rset, ws \in SUBSET wset :
       \E wo \in [UsesW(queue, ws) -> WoutOf(cfg.mode)],
          ro \in [UsesR(queue, rs) -> RoutOf(cfg.mode)],
          ubw \in SUBSET Neg(queue), ubr \in SUBSET Neg(queue) :
          LET r == DispFrom(1, MarkReady(ClearEv(queue), rs, ws),
                            [open |-> openfds, hosts |-> hostsdb, peers |-> peerfds,
                             maxfd |-> Cardinality(rs) + Cardinality(ws),
                             rs |-> rs, ws |-> ws], wo, ro, ubw, ubr, now)
          IN  /\ queue' = r.q
              /\ openfds' = r.open
              /\ hostsdb' = r.hosts
              /\ peerfds' = r.peers
              /\ maxfd' = r.maxfd
    \* the descriptor sets are not read again before FD_ZERO
    /\ rset' = {}
    /\ wset' = {}
    /\ piperdy' = FALSE
    /\ lastrec' = NoRec
    /\ out' = NoOut
    /\ UNCHANGED <<pipe, now, cfg, term, probe, resp>>

(* ------------------------------------------------------------------ *)
(* Phase C: the reap loop (lines 1027-1039).                            *)
(* ------------------------------------------------------------------ *)
\* squeue points at entry i; after an unlink squeue = socks_queue_ and the
\* for statement steps to squeue->next
RECURSIVE ReapFrom(_, _)
ReapFrom(q, i) ==
    IF i > Len(q) THEN q
    ELSE IF q[i].state = "DELETE"
    THEN IF Len(socks_unqueue(q, i)) = 0 THEN socks_unqueue(q, i)
         ELSE ReapFrom(socks_unqueue(q, i), 2)
    ELSE ReapFrom(q, i + 1)

Reap ==
    /\ pc = "reap"
    /\ pc' = "scan"
    /\ queue' = EndIter(ReapFrom(queue, 1))
    \* maxfd is next read by MFD_SET, which takes the maximum with the pipe's descriptor
    /\ maxfd' = 0
    /\ UNCHANGED <<pipe, now, rset, wset, piperdy, openfds, peerfds,
                   hostsdb, cfg, lastrec, out, term, probe, resp>>

Next ==
    \/ Tick
    \/ \E r \in Reqs : socks_queue(r[1], r[2])
    \/ sig_socks_connector
    \/ print_socks_queue(DumpFd)
    \/ Terminate({"scan"})
    \/ ScanExit
    \/ Scan
    \/ SelectFail
    \/ Select
    \/ Dispatch
    \/ Reap

Spec == Init /\ [][Next]_vars

(* ------------------------------------------------------------------ *)
(* The reactor under a termination request that arrives at any point of *)
(* an iteration. The thread is scheduled: the step it is at is taken    *)
(* (oc_select0 returns after SOCKS_DNS_RETRY_TIMEOUT at the latest).    *)
(* ------------------------------------------------------------------ *)
AnyPc == {"scan", "select", "dispatch", "reap"}

InitFair ==
    /\ Init
    /\ cfg.mode = "SOCKS5"
    /\ cfg.hosts_lookup

NextFair ==
    \/ Tick
    \/ \E r \in Reqs : socks_queue(r[1], r[2])
    \/ sig_socks_connector
    \/ Terminate(AnyPc)
    \/ ScanExit
    \/ Scan
    \/ SelectFail
    \/ Select
    \/ Dispatch
    \/ Reap

\* the steps of the reactor thread
Reactor == ScanExit \/ SelectFail \/ Reap \/ Select \/ Dispatch \/ Scan

\* once termination is requested the thread still gets its turns
Fairness == WF_vars(term /\ Reactor)

FairSpec == InitFair /\ [][NextFair]_vars /\ Fairness

(* ------------------------------------------------------------------ *)
(* The reactor with the DNS probe configured, followed over a longer    *)
(* time, so that a probe is re-sent and runs out of retries.            *)
(* ------------------------------------------------------------------ *)
\* the clock runs over 0..MaxTimeDns
MaxTimeDns == 2

InitDns ==
    /\ Init
    /\ cfg.dns_lookup

TickDns ==
    /\ pc \in {"scan", "select"}
    /\ now < MaxTimeDns
    /\ now' = now + 1
    /\ UNCHANGED <<queue, pipe, pc, rset, wset, piperdy, maxfd, openfds,
                   peerfds, hostsdb, cfg, lastrec, out, term, probe, resp>>

\* requests, temporary and permanent, for the address without a hosts entry
NextDns ==
    \/ TickDns
    \/ \E perm \in {0, 1} : socks_queue(NumAddr, perm)
    \/ Scan
    \/ SelectFail
    \/ Select
    \/ Dispatch
    \/ Reap

SpecDns == InitDns /\ [][NextDns]_vars

\* ---- synchron_socks_connect(): the blocking probe on a stack-local request ----

\* the outcome of the one blocking call sequence a loop pass makes
SyncOut == {"ok", "fail"}

\* a value of the probe: the result of one pass, p the probe and open the
\* descriptors open afterwards
SyncRes(p, open) == [p |-> p, open |-> open]

\* rlr_exit: return sq.fd
SyncReturn(p) == [p EXCEPT !.pc = "ret", !.ret = p.fd]

\* case SOCKS_DELETE without the oe_close()
SyncDelete_noclose(p, open) ==
    SyncRes([p EXCEPT !.fd = -1, !.state = "NEW", !.retried = TRUE], open)

\* case SOCKS_DELETE: oe_close(sq.fd); sq.fd = -1; sq.state = SOCKS_NEW
SyncDelete(p, open) ==
    SyncRes([p EXCEPT !.fd = -1, !.state = "NEW", !.retried = TRUE,
                      !.own = @ \ {p.fd}],
            oe_close(open, p.fd))

\* case SOCKS_NEW: socket(), then the blocking socks_tcp_connect(); with
\* CNF(rand_addr) a connected socket leaves the loop at once, a failed connect
\* breaks out of the switch with the state and the descriptor as they are
SyncNew(p, open, o) ==
    LET fd == socket(open)
        q  == [p EXCEPT !.fd = fd, !.own = IF fd = -1 THEN @ ELSE @ \cup {fd}]
    IN  IF fd = -1 THEN SyncRes(SyncReturn(q), open)
        ELSE IF o = "ok"
             THEN IF p.rand THEN SyncRes(SyncReturn(q), open \cup {fd})
                  ELSE SyncRes([q EXCEPT !.state = "CONNECTING"], open \cup {fd})
             ELSE SyncRes(q, open \cup {fd})

\* case SOCKS_CONNECTING: the request or the greeting of the configured mode;
\* neither branch is taken without a proxy protocol
SyncConnecting(p, open, mode, o) ==
    CASE mode = "SOCKS4A" ->
            SyncRes([p EXCEPT !.state = IF o = "ok" THEN "S4A_REQ_SENT" ELSE "DELETE"], open)
      [] mode = "SOCKS5" ->
            SyncRes([p EXCEPT !.state = IF o = "ok" THEN "S5_GREET_SENT" ELSE "DELETE"], open)
      [] OTHER -> SyncRes(p, open)

\* the three receiving cases: a failure of any call of the case goes to
\* SOCKS_DELETE, otherwise the handshake advances
SyncReceive(p, open, o) ==
    LET nxt == CASE p.state = "S4A_REQ_SENT"  -> "READY"
                 [] p.state = "S5_GREET_SENT" -> "S5_REQ_SENT"
                 [] p.state = "S5_REQ_SENT"   -> "READY"
    IN  SyncRes([p EXCEPT !.state = IF o = "ok" THEN nxt ELSE "DELETE"], open)

\* one pass of the while loop: the loop condition, term_req(), the switch
synchron_step(p, open, tr, mode, o) ==
    IF p.state = "READY" \/ tr THEN SyncRes(SyncReturn(p), open)
    ELSE CASE p.state = "NEW"        -> SyncNew(p, open, o)
           [] p.state = "CONNECTING" -> SyncConnecting(p, open, mode, o)
           [] p.state \in {"S4A_REQ_SENT", "S5_GREET_SENT", "S5_REQ_SENT"} ->
                 SyncReceive(p, open, o)
           [] p.state = "DELETE"     -> SyncDelete(p, open)
           [] OTHER -> SyncRes([p EXCEPT !.state = "DELETE"], open)

\* the probe runs one pass of its loop
synchron_socks_connect ==
    /\ probe.pc = "loop"
    /\ \E o \in SyncOut :
         LET r == synchron_step(probe, openfds, term, cfg.mode, o)
         IN  /\ probe' = r.p
             /\ openfds' = r.open
    /\ UNCHANGED <<queue, pipe, now, pc, rset, wset, piperdy, maxfd, peerfds,
                   hostsdb, cfg, lastrec, out, term, resp>>

\* the probe has been called while the connector runs: sq zeroed, SOCKS_NEW,
\* fd -1, CNF(rand_addr) either way
InitSync ==
    /\ queue = << >>
    /\ pipe = << >>
    /\ now = 0
    /\ pc = "scan"
    /\ rset = {}
    /\ wset = {}
    /\ piperdy = FALSE
    /\ maxfd = 0
    /\ openfds = {}
    /\ peerfds = {}
    /\ hostsdb = {1}
    /\ cfg \in Configs
    /\ lastrec = NoRec
    /\ out = NoOut
    /\ term = FALSE
    /\ probe \in {[NoProbe EXCEPT !.pc = "loop", !.rand = b] : b \in BOOLEAN}
    /\ resp = NoResp

\* the probe's thread beside the connector's, which serves requests for one address
NextSync ==
    \/ synchron_socks_connect
    \/ Terminate({"scan"})
    \/ \E perm \in {0, 1} : socks_queue(NumAddr, perm)
    \/ ScanExit
    \/ Scan
    \/ SelectFail
    \/ Select
    \/ Dispatch
    \/ Reap

\* ---- the connector that keeps iterating while time advances ----

\* the SOCKS4A proxy without the DNS probe
InitLive == Init /\ cfg.mode = "SOCKS4A" /\ ~cfg.dns_lookup

\* requests for the temporary address only; oc_select0 does not fail
NextLive ==
    \/ Tick
    \/ socks_queue(1, 0)
    \/ Scan
    \/ Select
    \/ Dispatch
    \/ Reap

\* one iteration of the reactor after the other
Iterate == Reap \/ Select \/ Dispatch \/ Scan

\* the reactor keeps iterating, and the clock advances as far as it is counted
FairnessLive == WF_vars(Iterate) /\ SF_vars(Tick)

SpecLive == InitLive /\ [][NextLive]_vars /\ FairnessLive

SpecSync == InitSync /\ [][NextSync]_vars

\* ---- socks_rec_response(): the reply to the SOCKS4a request ----

\* sizeof(SocksHdr_t): ver, cmd, port, addr
SocksHdrLen == 8

\* what read() can return, and values of the reply's bytes: ver, cmd, and the
\* six bytes of port and addr taken together
ReadRets == -1..SocksHdrLen
VerVals == {0, 1, 4, 255}
CmdVals == {0, 89, 90, 91, 92, 93, 255}
RestVals == {0, 1}

\* variant: does not look at the version byte
socks_rec_response_nover(ret, ver, cmd) ==
    IF ret = -1 THEN -1
    ELSE IF ret < SocksHdrLen THEN -1
    ELSE IF cmd # 90 THEN -1
    ELSE 0

\* lines 149-175: read() failed, the reply is short, or it is not {0, 90}
socks_rec_response(ret, ver, cmd) ==
    IF ret = -1 THEN -1
    ELSE IF ret < SocksHdrLen THEN -1
    ELSE IF ver # 0 \/ cmd # 90 THEN -1
    ELSE 0

\* the function is called on what the read met
RecResponse ==
    /\ ~resp.done
    /\ resp' = [resp EXCEPT !.done = TRUE,
                            !.res = socks_rec_response(resp.ret, resp.ver, resp.cmd)]
    /\ UNCHANGED <<queue, pipe, now, pc, rset, wset, piperdy, maxfd, openfds,
                   peerfds, hostsdb, cfg, lastrec, out, term, probe>>

\* the function is about to be called, in mode SOCKS4A, and its read() is
\* about to meet any of the replies
InitResp ==
    /\ queue = << >>
    /\ pipe = << >>
    /\ now = 0
    /\ pc = "scan"
    /\ rset = {}
    /\ wset = {}
    /\ piperdy = FALSE
    /\ maxfd = 0
    /\ openfds = {}
    /\ peerfds = {}
    /\ hostsdb = {1}
    /\ cfg = [mode |-> "SOCKS4A", dns_lookup |-> FALSE, hosts_lookup |-> TRUE]
    /\ lastrec = NoRec
    /\ out = NoOut
    /\ term = FALSE
    /\ probe = NoProbe
    /\ resp \in [ret : ReadRets, ver : VerVals, cmd : CmdVals, rest : RestVals,
                 done : {FALSE}, res : {-1}]

NextResp == RecResponse

SpecResp == InitResp /\ [][NextResp]_vars

(* ------------------------------------------------------------------ *)
(* Properties.                                                          *)
(* ------------------------------------------------------------------ *)
\* what the code keeps of an entry (the fields of SocksQueue_t the model follows)
Fields(e) == <<e.addr, e.perm, e.state, e.fd, e.retry, e.connect_time, e.restart_time>>

SelectStep == pc = "select" /\ pc' = "dispatch"
ReapStep == pc = "reap" /\ pc' = "scan"
ScanStep == pc = "scan" /\ pc' = "select"
DispatchStep == pc = "dispatch" /\ pc' = "reap"

\* C1: in every reachable state no two linked entries of the request queue have
\* the same address.
C1_UniqueAddr ==
    \A i, j \in 1..Len(queue) : i # j => queue[i].addr # queue[j].addr

\* a request for an address that is linked behind another entry has been read
C1_Witness ==
    /\ pc = "dispatch"
    /\ lastrec.addr # 0
    /\ Len(queue) = 2
    /\ queue[2].addr = lastrec.addr

\* C2: in every reachable state an entry in state CONNECTING, S4A_REQ_SENT,
\* S5_GREET_SENT, S5_REQ_SENT or DNS_SENT has fd > 0.
C2_ActiveHasFd ==
    \A i \in 1..Len(queue) :
        queue[i].state \in {"CONNECTING", "S4A_REQ_SENT", "S5_GREET_SENT", "S5_REQ_SENT",
                            "DNS_SENT"}
            => queue[i].fd > 0

\* one entry waits for its DNS answer while another is in its TCP connect
C2_Witness ==
    \E i, j \in 1..Len(queue) :
        /\ queue[i].state = "DNS_SENT"
        /\ queue[j].state = "CONNECTING"
        /\ queue[i].fd > 0
        /\ queue[j].fd > 0

\* C3: when a reactor iteration ends with the reap phase, no entry of the queue
\* is in state DELETE.
C3_NoDeleteAfterReap ==
    [][ReapStep => \A i \in 1..Len(queue') : queue'[i].state # "DELETE"]_vars

\* C4: an entry that is in state DELETE when an iteration ends is no longer
\* linked when the next iteration that reaches the reap phase ends.
C4_OldDeleteUnlinked ==
    [][ReapStep =>
         \A i \in 1..Len(queue) :
             queue[i].old => \A j \in 1..Len(queue') : queue'[j].addr # queue[i].addr]_vars

\* C5: a temporary entry makes at most SOCKS_MAX_RETRY + 1 counted NEW passes
\* while it is linked.
C5_AttemptsBounded ==
    \A i \in 1..Len(queue) : queue[i].perm = 0 => queue[i].att <= SOCKS_MAX_RETRY + 1

\* C6: a permanent entry is marked DELETE only by a successful activation.
C6_PermOnlyActivated ==
    \A i \in 1..Len(queue) :
        (queue[i].perm = 1 /\ queue[i].state = "DELETE") => queue[i].ins # << >>

\* C7: every activation calls insert_peer once for its entry, with the entry's
\* descriptor and an elapsed time that is not negative, and the entry is DELETE
\* from then on, so that no second call follows.
C7_InsertPeerOnce ==
    \A i \in 1..Len(queue) :
        /\ Len(queue[i].ins) <= 1
        /\ queue[i].ev = "activated" => Len(queue[i].ins) = 1
        /\ queue[i].ins # << >> =>
              /\ queue[i].state = "DELETE"
              /\ queue[i].ins[1].fd = queue[i].fd
              /\ queue[i].ins[1].fd \in peerfds
              /\ queue[i].ins[1].elapsed >= 0

\* an entry has just been activated, a clock tick after its connect began
C7_Witness ==
    \E i \in 1..Len(queue) :
        /\ pc = "reap"
        /\ queue[i].ev = "activated"
        /\ Len(queue[i].ins) = 1
        /\ queue[i].ins[1].fd = queue[i].fd
        /\ queue[i].ins[1].elapsed = 1

\* C8: the reactor takes one record from the pipe; a record with the unspecified
\* address and no next is a wakeup and leaves the queue as it is, one with the
\* unspecified address and a next dumps the queue and enqueues nothing, one with
\* an address is enqueued, unless its address is linked already.
C8_PipeRecord ==
    [][(SelectStep /\ pipe # << >>) =>
          /\ pipe' = Tail(pipe)
          /\ lastrec' # NoRec =>
                LET sq == Head(pipe)
                    same == \A i \in 1..Len(queue) : Fields(queue'[i]) = Fields(queue[i])
                IN  /\ lastrec' = sq
                    /\ (sq.addr = 0 /\ sq.next = 0) =>
                          Len(queue') = Len(queue) /\ same /\ out' = NoOut
                    /\ (sq.addr = 0 /\ sq.next # 0) =>
                          /\ Len(queue') = Len(queue) /\ same
                          /\ out' = socks_output_queue(queue', sq.next)
                    /\ sq.addr # 0 =>
                          /\ out' = NoOut
                          /\ \E i \in 1..Len(queue') : queue'[i].addr = sq.addr
                          /\ Len(queue') = Len(queue) +
                                (IF \E i \in 1..Len(queue) : queue[i].addr = sq.addr
                                 THEN 0 ELSE 1)]_vars

\* the queue of two entries has been dumped to the descriptor of the record
C8_Witness ==
    /\ pc = "dispatch"
    /\ lastrec.next = DumpFd
    /\ out.fd = DumpFd
    /\ Len(out.lines) = 2
    /\ Len(queue) = 2

\* C9: enqueue of a template whose address is linked leaves every entry and the
\* order as they are; otherwise one copy of the template is linked at the head
\* and the entries behind it are as they were.
C9_Enqueue ==
    [][(SelectStep /\ pipe # << >> /\ lastrec' # NoRec /\ Head(pipe).addr # 0) =>
          LET sq == Head(pipe)
          IN  IF \E i \in 1..Len(queue) : queue[i].addr = sq.addr
              THEN /\ Len(queue') = Len(queue)
                   /\ \A i \in 1..Len(queue) : Fields(queue'[i]) = Fields(queue[i])
              ELSE /\ Len(queue') = Len(queue) + 1
                   /\ Fields(queue'[1]) = <<sq.addr, sq.perm, "NEW", 0, 0, 0, 0>>
                   /\ \A i \in 1..Len(queue) : Fields(queue'[i + 1]) = Fields(queue[i])]_vars

\* a request was read for an address whose entry is past its first state
C9_Witness ==
    \E i \in 1..Len(queue) :
        /\ pc = "dispatch"
        /\ lastrec.addr = queue[i].addr
        /\ queue[i].state \in {"CONNECTING", "S4A_REQ_SENT", "S5_GREET_SENT", "S5_REQ_SENT"}
        /\ queue[i].retry > 0

\* C10: an entry whose connect or handshake fails is rescheduled: its
\* descriptor is closed and fd is 0, its state is NEW, restart_time is the
\* time of the failure plus TOR_SOCKS_CONN_TIMEOUT, and the reschedule leaves
\* retry as it is (the failing connect of the scan has counted its own pass
\* before).
C10_FailureReschedules ==
    [][(ScanStep \/ DispatchStep) =>
       \A i \in 1..Len(queue') :
          queue'[i].ev \in {"connerr", "fail"} =>
             /\ Len(queue') = Len(queue)
             /\ queue'[i].fd = 0
             /\ queue'[i].state = "NEW"
             /\ queue'[i].restart_time = now + TOR_SOCKS_CONN_TIMEOUT
             /\ queue'[i].ev = "fail" =>
                   /\ queue'[i].retry = queue[i].retry
                   /\ queue[i].fd > 0
                   /\ queue[i].fd \notin openfds'
             /\ queue'[i].ev = "connerr" => queue'[i].retry = queue[i].retry + 1]_vars

\* a handshake has just failed at time 1 on an entry that had counted a pass
C10_Witness ==
    \E i \in 1..Len(queue) :
        /\ pc = "reap"
        /\ queue[i].ev = "fail"
        /\ queue[i].retry >= 1
        /\ now = 1
        /\ queue[i].restart_time = 1 + TOR_SOCKS_CONN_TIMEOUT

\* C11: in mode SOCKS5 an entry becomes CONNECTING only from NEW (in the scan),
\* S5_GREET_SENT only from CONNECTING and S5_REQ_SENT only from S5_GREET_SENT (in
\* the dispatch, where one pass over an entry whose descriptor is in both sets
\* sends the greeting and reads its answer); insert_peer is called for it only in S5_REQ_SENT, once, with
\* its descriptor, and marks it DELETE; from then on its fields stay as they are
\* (no further connect attempt), and it is unlinked by the reap of that
\* iteration or, at the latest, by the next reap.
C11_Socks5Path ==
    [][cfg.mode = "SOCKS5" =>
         /\ \A i \in 1..Len(queue) : \A j \in 1..Len(queue') :
               queue'[j].addr = queue[i].addr =>
                  LET s == queue[i].state
                      s2 == queue'[j].state
                  IN  /\ (s2 = "CONNECTING" /\ s # s2) => (s = "NEW" /\ ScanStep)
                      /\ (s2 = "S5_GREET_SENT" /\ s # s2) => (s = "CONNECTING" /\ DispatchStep)
                      /\ (s2 = "S5_REQ_SENT" /\ s # s2) =>
                            (s \in {"S5_GREET_SENT", "CONNECTING"} /\ DispatchStep)
                      /\ s2 # "S4A_REQ_SENT"
                      /\ queue'[j].ins # queue[i].ins =>
                            /\ s = "S5_REQ_SENT" /\ s2 = "DELETE" /\ DispatchStep
                            /\ Len(queue'[j].ins) = 1
                            /\ queue'[j].ins[1].fd = queue[i].fd
                            /\ queue[i].fd \in peerfds'
                      /\ queue[i].ins # << >> =>
                            /\ Fields(queue'[j]) = Fields(queue[i])
                            /\ queue'[j].att = queue[i].att
         /\ ReapStep =>
               \A i \in 1..Len(queue) :
                  (queue[i].ins # << >> /\ queue[i].old) =>
                      \A j \in 1..Len(queue') : queue'[j].addr # queue[i].addr]_vars

\* in mode SOCKS5 a request has been activated after a single connect attempt
\* and the reap has unlinked it
C11_Witness ==
    /\ cfg.mode = "SOCKS5"
    /\ pc = "scan"
    /\ peerfds # {}
    /\ queue = << >>

\* C12: a TCP socket is created for an entry that had one before only when at
\* least TOR_SOCKS_CONN_TIMEOUT has passed since the earlier connect began (the
\* earlier attempt ended no sooner than it began).
C12_ConnectSpacing ==
    [][ScanStep =>
         \A i \in 1..Len(queue) :
            (/\ queue[i].tried
             /\ queue[i].state = "NEW"
             /\ (queue'[i].state = "CONNECTING" \/ queue'[i].ev = "connerr")) =>
                now >= queue[i].connect_time + TOR_SOCKS_CONN_TIMEOUT]_vars

\* C13: when termination has been requested and the reactor is at the top of
\* its loop, its next step is the return: the queue, the pipe, the descriptors
\* and the descriptor sets stay as they are; and a reactor that is scheduled
\* returns after termination has been requested.
C13_Cancellation ==
    /\ [][(term /\ pc = "scan") =>
            /\ pc' \in {"scan", "done"}
            /\ UNCHANGED <<queue, pipe, openfds, rset, wset, piperdy, peerfds, hostsdb>>]_vars
    /\ [][pc = "done" => pc' = "done"]_vars
    /\ (term ~> pc = "done")

\* the reactor has returned on a request that arrived in the middle of an
\* iteration, with a record in the pipe and an entry waiting for its answer
C13_Witness ==
    /\ pc = "done"
    /\ term
    /\ pipe # << >>
    /\ \E i \in 1..Len(queue) : queue[i].state = "S5_GREET_SENT" /\ queue[i].fd \in openfds

\* a scan has closed the descriptor of entry i: the number is free, or another
\* entry's socket() of the same scan has got it
ScanClosed(i) ==
    \/ queue[i].fd \notin openfds'
    \/ \E j \in 1..Len(queue) :
          /\ j # i
          /\ queue[j].state = "NEW"
          /\ queue'[j].state \in {"CONNECTING", "DNS_SENT"}
          /\ queue'[j].fd = queue[i].fd

\* lines 767-793 on entry i: waiting, re-sending, giving the probe up
DnsSentPass(i) ==
    /\ now < queue[i].restart_time =>
          /\ Fields(queue'[i]) = Fields(queue[i])
          /\ queue[i].fd \in rset'
    /\ now >= queue[i].restart_time =>
          /\ \/ /\ queue'[i].state = "DNS_SENT"
                /\ queue[i].retry < SOCKS_DNS_RETRY
                /\ queue'[i].retry = queue[i].retry + 1
                /\ queue'[i].restart_time = now + SOCKS_DNS_RETRY_TIMEOUT
                /\ queue'[i].fd = queue[i].fd
                /\ queue[i].fd \in rset'
             \/ /\ queue'[i].state = "NEW"
                /\ queue'[i].restart_time = 0
                /\ queue'[i].retry = 1
                /\ queue'[i].fallback = queue[i].retry + 1
                /\ ScanClosed(i)
          /\ queue[i].retry >= SOCKS_DNS_RETRY => queue'[i].state = "NEW"

\* the NEW pass of a scan went on to the TCP connect for entry i: socket() failed,
\* or the connect was begun on a new socket
TcpBegun(i) ==
    \/ queue'[i].fd = -1
    \/ /\ queue'[i].tried
       /\ queue'[i].connect_time = now
       /\ \/ queue'[i].state = "CONNECTING" /\ queue'[i].fd \in wset'
          \/ queue'[i].ev = "connerr"

\* line 664: the pass finds the retries of a temporary entry spent
RetriesSpent(i) ==
    /\ queue[i].perm = 0
    /\ queue[i].retry + 1 > SOCKS_MAX_RETRY
    /\ queue'[i].state = "DELETE"

\* lines 720-730: in mode DIRECT the pass ends where no destination is found
NoDestination(i) ==
    /\ cfg.mode = "DIRECT"
    /\ queue'[i].state = "NEW"
    /\ queue'[i].fd = queue[i].fd
    /\ queue'[i].tried = queue[i].tried
    /\ queue'[i].restart_time = queue[i].restart_time

C15_DnsSuccessThenConnect ==
    [][/\ DispatchStep =>
            \A i \in 1..Len(queue) :
               (queue[i].state = "DNS_SENT" /\ queue'[i].state = "NEW") =>
                  /\ queue'[i].answered
                  /\ queue'[i].retry = 0
                  /\ queue'[i].restart_time = 0
                  /\ queue[i].fd \notin openfds'
       /\ ScanStep =>
            \A i \in 1..Len(queue) :
               (queue[i].state = "NEW" /\ queue[i].answered
                  /\ now >= queue[i].restart_time) =>
                  /\ queue'[i].state # "DNS_SENT"
                  /\ TcpBegun(i) \/ NoDestination(i)]_vars

\* C16: an entry in DNS_SENT whose descriptor is readable and whose datagram is
\* not accepted (the sender is not ns_addr) has its UDP descriptor closed and is
\* marked DELETE, and the reap of that iteration unlinks it.
C16_DnsMismatchRemoved ==
    [][/\ DispatchStep =>
            \A i \in 1..Len(queue) :
               queue'[i].ev = "dnsfail" =>
                  /\ queue[i].state = "DNS_SENT"
                  /\ queue'[i].state = "DELETE"
                  /\ queue[i].fd \notin openfds'
       /\ ReapStep =>
            \A i \in 1..Len(queue) :
               queue[i].ev = "dnsfail" =>
                  \A j \in 1..Len(queue') : queue'[j].addr # queue[i].addr]_vars

\* C17: an activation after which search_peer() does not find the inserted peer
\* sends no keepalive and leaves the entry reset: state NEW, fd 0, restart_time 0.
C17_PeerNotFoundResets ==
    [][DispatchStep =>
         \A i \in 1..Len(queue) :
            (queue'[i].ev = "activated" /\ ~queue'[i].ins[Len(queue'[i].ins)].found) =>
               /\ \A k \in DOMAIN queue'[i].ins[Len(queue'[i].ins)].calls :
                     queue'[i].ins[Len(queue'[i].ins)].calls[k] # "send_keepalive"
               /\ queue'[i].state = "NEW"
               /\ queue'[i].fd = 0
               /\ queue'[i].restart_time = 0]_vars

\* the locks held after the first k calls of a sequence of registry calls
RECURSIVE Held(_, _)
Held(calls, k) ==
    IF k = 0 THEN {}
    ELSE CASE calls[k] = "lock_peers" -> Held(calls, k - 1) \cup {"peers"}
           [] calls[k] = "unlock_peers" -> Held(calls, k - 1) \ {"peers"}
           [] calls[k] = "lock_peer" -> Held(calls, k - 1) \cup {"peer"}
           [] calls[k] = "unlock_peer" -> Held(calls, k - 1) \ {"peer"}
           [] OTHER -> Held(calls, k - 1)

\* the number of calls of one name in a sequence of registry calls
Count(calls, name) == Cardinality({k \in DOMAIN calls : calls[k] = name})

\* C20: in every activation the peer is looked up, and its lock taken, with the
\* registry lock held, and its lock is taken only if it was found; send_keepalive
\* is called only for a found peer whose lock is held; no lock is taken while
\* held or released while not held, each is taken at most once and released as
\* often as taken, and none is held when socks_activate_peer returns.
C20_PeerLocking ==
    \A i \in 1..Len(queue) : \A n \in DOMAIN queue[i].ins :
        LET rec == queue[i].ins[n]
            calls == rec.calls
        IN  /\ \A k \in DOMAIN calls :
                  /\ calls[k] = "search_peer" => "peers" \in Held(calls, k - 1)
                  /\ calls[k] = "lock_peer" =>
                        rec.found /\ Held(calls, k - 1) = {"peers"}
                  /\ calls[k] = "send_keepalive" =>
                        rec.found /\ "peer" \in Held(calls, k - 1)
                  /\ calls[k] = "lock_peers" => "peers" \notin Held(calls, k - 1)
                  /\ calls[k] = "unlock_peers" => "peers" \in Held(calls, k - 1)
                  /\ calls[k] = "unlock_peer" => "peer" \in Held(calls, k - 1)
            /\ Count(calls, "lock_peers") = 1
            /\ Count(calls, "unlock_peers") = 1
            /\ Count(calls, "search_peer") = 1
            /\ Count(calls, "lock_peer") = (IF rec.found THEN 1 ELSE 0)
            /\ Count(calls, "unlock_peer") = Count(calls, "lock_peer")
            /\ Count(calls, "send_keepalive") = Count(calls, "lock_peer")
            /\ Held(calls, Len(calls)) = {}

\* one dispatch has activated two entries, one whose peer was found and one
\* whose peer was not
C20_Witness ==
    \E i, j \in 1..Len(queue) :
        /\ pc = "reap"
        /\ queue[i].ev = "activated"
        /\ queue[j].ev = "activated"
        /\ queue[i].ins[1].found
        /\ ~queue[j].ins[1].found

\* the states of the probe in which a handshake with the proxy is under way
SyncHandshake == {"CONNECTING", "S4A_REQ_SENT", "S5_GREET_SENT", "S5_REQ_SENT"}

\* C18: a pass of synchron_socks_connect leaves the shared queue, its entries
\* and their fields, as they are; the handshake runs on one descriptor, the one
\* the probe connected, and once the probe is in READY it returns exactly that
\* descriptor; a handshake that fails goes to DELETE with the descriptor
\* untouched, and the pass that handles DELETE closes that descriptor, sets
\* sq.fd to -1 and starts again from NEW.
C18_ProbeFrame ==
    [][probe' # probe =>
        /\ queue' = queue
        /\ (probe.state \in SyncHandshake /\ probe'.pc = "loop") =>
              /\ probe'.fd = probe.fd
              /\ openfds' = openfds
              /\ probe'.state \in SyncHandshake \cup {"READY", "DELETE"}
        /\ (probe'.state = "READY" /\ probe.state # "READY") =>
              /\ probe.state \in {"S4A_REQ_SENT", "S5_REQ_SENT"}
              /\ probe.fd \in Fds
        /\ probe.state = "READY" =>
              /\ probe'.pc = "ret"
              /\ probe'.ret = probe.fd
              /\ probe'.state = "READY"
        /\ (probe.state = "DELETE" /\ probe'.pc = "loop") =>
              /\ probe.fd \notin openfds'
              /\ probe'.fd = -1
              /\ probe'.state = "NEW"]_vars

\* C18 witness: after a failed handshake and the retry the probe has returned
\* from READY with the descriptor of its last connect, the only one open, while
\* a request waits in the queue
C18_Witness ==
    /\ probe.pc = "ret"
    /\ probe.state = "READY"
    /\ probe.retried
    /\ probe.ret \in Fds
    /\ openfds = {probe.ret}
    /\ Len(queue) = 1
    /\ queue[1].state = "NEW"

\* C19: with CNF(rand_addr) set the probe never starts a handshake, and the
\* pass of its first successful connect returns a failure result: -1, or at
\* least no descriptor that is open.
C19_RandAddrFails ==
    [][(/\ probe.rand
        /\ probe.pc = "loop"
        /\ probe'.pc = "ret"
        /\ ~term
        /\ probe'.fd # -1) =>
            /\ probe.state = "NEW"
            /\ (probe'.ret = -1 \/ probe'.ret \notin openfds')]_vars

\* C29: the probe never has more than one socket of its own open, and when it
\* returns without having reached READY the value it returns is no descriptor
\* of a socket it still has open (stated for the calls without CNF(rand_addr),
\* whose early return is the subject of C19).
C29_ProbeOneSocket ==
    ~probe.rand =>
        /\ Cardinality(probe.own) <= 1
        /\ (probe.pc = "ret" /\ probe.state # "READY") => probe.ret \notin probe.own

\* C27: an entry that is still in CONNECTING when an iteration begins (its
\* socket was not reported writable in the wait before) is in CONNECTING with
\* the same descriptor, still open, after the state scan of that iteration, and
\* the descriptor is in the write set again.
C27_ConnectingWaits ==
    [][ScanStep =>
        \A i \in 1..Len(queue) :
            queue[i].state = "CONNECTING" =>
                /\ queue'[i].state = "CONNECTING"
                /\ queue'[i].fd = queue[i].fd
                /\ queue[i].fd \in openfds'
                /\ queue[i].fd \in wset']_vars

\* C25: in every dispatch each entry whose descriptor the wait reported ready
\* for the event its state handles (writable in CONNECTING; readable in
\* S4A_REQ_SENT, S5_GREET_SENT, S5_REQ_SENT, DNS_SENT) is advanced by that
\* dispatch, wherever it stands in the queue and whatever the fd fields of the
\* other entries hold: its handler runs, and every handler leaves the state it
\* found.
C25_DispatchComplete ==
    [][DispatchStep =>
        \A i \in 1..Len(queue') :
            queue'[i].rdy => queue'[i].state # queue[i].state]_vars

\* the transitions a complete handshake of mode m consists of
HandshakePath(m) ==
    CASE m = "DIRECT"  -> <<[from |-> "CONNECTING", on |-> "w", reply |-> "ok"]>>
      [] m = "SOCKS4A" -> <<[from |-> "CONNECTING", on |-> "w", reply |-> "ok"],
                            [from |-> "S4A_REQ_SENT", on |-> "r", reply |-> "ok"]>>
      [] m = "SOCKS5"  -> <<[from |-> "CONNECTING", on |-> "w", reply |-> "ok"],
                            [from |-> "S5_GREET_SENT", on |-> "r", reply |-> "ok"],
                            [from |-> "S5_REQ_SENT", on |-> "r", reply |-> "ok"]>>

\* C26: an entry for which insert_peer was called has gone through the whole
\* handshake of the configured mode, each step taken on a successful outcome:
\* DIRECT from CONNECTING in the write set with SO_ERROR zero; SOCKS4A from
\* CONNECTING to S4A_REQ_SENT and from there on a success reply; SOCKS5 from
\* CONNECTING to S5_GREET_SENT, on the accepted greeting to S5_REQ_SENT, and
\* from there on a success reply.  An entry in S4A_REQ_SENT, S5_GREET_SENT or
\* S5_REQ_SENT has come there by the corresponding prefix, and the write-set
\* branch has changed the state of entries in CONNECTING only.
C26_ActivationAfterHandshake ==
    \A i \in 1..Len(queue) :
        LET e == queue[i]
            h == e.hist
            p == HandshakePath(cfg.mode)
        IN  /\ \A k \in 1..Len(h) : h[k].on = "w" => h[k].from = "CONNECTING"
            /\ e.ins # << >> => h = p
            /\ e.state = "S4A_REQ_SENT" => cfg.mode = "SOCKS4A" /\ h = SubSeq(p, 1, 1)
            /\ e.state = "S5_GREET_SENT" => cfg.mode = "SOCKS5" /\ h = SubSeq(p, 1, 1)
            /\ e.state = "S5_REQ_SENT" => cfg.mode = "SOCKS5" /\ h = SubSeq(p, 1, 2)
            /\ e.state \in {"NEW", "CONNECTING", "DNS_SENT"} => h = << >>

\* C26 witness: a SOCKS4A entry has been activated after both steps
C26_Witness ==
    /\ cfg.mode = "SOCKS4A"
    /\ \E i \in 1..Len(queue) :
          /\ queue[i].ins # << >>
          /\ queue[i].ev = "activated"
          /\ Len(queue[i].hist) = 2
          /\ queue[i].hist[2].from = "S4A_REQ_SENT"

\* C28: in every reachable state the fd of each entry is either not positive
\* or the number of a descriptor that is open, and no two entries of the queue
\* hold the same positive descriptor number.
C28_DescriptorOwnership ==
    /\ \A i \in 1..Len(queue) : queue[i].fd > 0 => queue[i].fd \in openfds
    /\ \A i, j \in 1..Len(queue) :
          (i # j /\ queue[i].fd > 0) => queue[i].fd # queue[j].fd

\* C21: the threads that write to the request pipe never look at the shared
\* queue: no record in the pipe was written by a call that had walked over
\* entries of the queue before it wrote.
C21_PipeOnly ==
    \A k \in 1..Len(pipe) : ~pipe[k].walked

\* C22: when the reactor consumes a record with the unspecified address whose
\* next carries descriptor F, it writes to F one line for every entry of the
\* queue, the line of the entry at position i as the i-th line, then one zero
\* byte, and the queue and all fields of its entries stay as they are.  The
\* positions are the reverse of the order of enqueueing: every step of the
\* program links a new entry in front of all others and keeps the others in
\* their order.
C22_Introspection ==
    /\ [][(SelectStep /\ pipe # << >> /\ lastrec' # NoRec
              /\ Head(pipe).addr = 0 /\ Head(pipe).next # 0) =>
            /\ out'.fd = Head(pipe).next
            /\ Len(out'.lines) = Len(queue)
            /\ \A i \in 1..Len(queue) :
                  /\ out'.lines[i].idx = i - 1
                  /\ out'.lines[i].addr = queue[i].addr
                  /\ out'.lines[i].state = queue[i].state
                  /\ out'.lines[i].perm = queue[i].perm
                  /\ out'.lines[i].retry = queue[i].retry
                  /\ out'.lines[i].connect_time = queue[i].connect_time
                  /\ out'.lines[i].restart_time = queue[i].restart_time
            /\ out'.nul = 1
            /\ Len(queue') = Len(queue)
            /\ \A i \in 1..Len(queue) : Fields(queue'[i]) = Fields(queue[i])]_vars
    /\ [][/\ \A i, j \in 1..Len(queue) :
               LET pi == socks_get_req(queue', queue[i].addr)
                   pj == socks_get_req(queue', queue[j].addr)
               IN  (i < j /\ pi # 0 /\ pj # 0) => pi < pj
          /\ \A k \in 1..Len(queue') :
               socks_get_req(queue, queue'[k].addr) = 0 => k = 1]_vars

\* C22 witness: two entries, the one enqueued last in its handshake, have been
\* written to the descriptor of the record in the order of the queue
C22_Witness ==
    /\ pc = "dispatch"
    /\ out.fd = DumpFd
    /\ out.nul = 1
    /\ Len(out.lines) = 2
    /\ Len(queue) = 2
    /\ out.lines[1].addr = queue[1].addr
    /\ out.lines[1].addr # out.lines[2].addr
    /\ out.lines[1].state \in {"S4A_REQ_SENT", "S5_GREET_SENT", "S5_REQ_SENT"}

\* C24: socks_rec_response reports success (0) exactly when read() returned
\* all eight bytes and the first is 0 and the second 90, whatever the other
\* six are; in every other case (read error, fewer than eight bytes, another
\* first byte, another second byte) it reports failure (-1).
C24_Socks4aReply ==
    resp.done =>
        /\ resp.res \in {0, -1}
        /\ resp.res = 0 <=> (resp.ret = 8 /\ resp.ver = 0 /\ resp.cmd = 90)

\* C24 witness: a reply {0, 90, ...} with other bytes not zero was accepted
C24_Witness ==
    /\ resp.done
    /\ resp.res = 0
    /\ resp.ret = 8
    /\ resp.rest # 0

\* a temporary entry waits for a reply of the proxy
TempWaitsForReply ==
    \E i \in 1..Len(queue) :
        /\ queue[i].perm = 0
        /\ queue[i].state \in {"S4A_REQ_SENT", "S5_GREET_SENT", "S5_REQ_SENT"}

\* C23: every temporary request that was enqueued is removed from the queue in
\* the end, whatever the proxy does, as long as the reactor iterates; so a
\* temporary entry that waits for a reply of the proxy does not wait for ever:
\* it is activated, or rescheduled and in the end given up.
C23_TemporaryRemoved == TempWaitsForReply ~> ~TempWaitsForReply

====
